---- MODULE Spec2Model ----
(***************************************************************************)
(* Library information system (back/server.js): books, readers and book    *)
(* issues kept in a relational store, and the HTTP handlers that create    *)
(* books and readers, list books, issue a book and return it.              *)
(*                                                                         *)
(* Every handler is an async function; each `await` on the store is one    *)
(* atomic step of the store and a point where another request's step may   *)
(* run.  A handler instance is a slot of `req`: what it was called with,   *)
(* where it stands (pc), the local values it holds and, once its last      *)
(* await is over, the response it is about to send.                        *)
(* BookIssue rows carry the BookId and ReaderId given to BookIssue.create, *)
(* as the handlers and the documented BookIssue schema use them.           *)
(* `now` is the clock; `yearMax` is the max of Book.year, which the Book   *)
(* model reads from the clock once, when the process loads it.             *)
(***************************************************************************)
EXTENDS Integers, Sequences, FiniteSets

VARIABLES books, readers, issues, req, now, yearMax

vars == <<books, readers, issues, req, now, yearMax>>

\* ------------------------------------------------------------------ bounds
MaxBooks == 2
MaxReaders == 1
MaxIssues == 2
MaxNow == 2

\* The handler instances that may be in flight together.
Procs == {"p1", "p2"}

\* ------------------------------------------------------------- the schema
BookStatus == {"available", "issued", "repair"}

BookStatusDefault == "available"

IssueStatus == {"issued", "returned", "overdue"}

IssueStatusDefault == "issued"

\* Absent values: a field not given in a request body, a NULL column.
Null == "null"

NoId == 0

NoDate == -1

\* A request body without a year.
NoYear == -1000

\* DATEONLY: a timestamp is stored as its calendar date.
TicksPerDay == 2

DateOnly(t) == t \div TicksPerDay

\* The calendar year in which the process is first started.
YearAtLoad == 3

\* The clock runs over the end of a year: a year of the model is one day long.
DaysPerYear == 1

\* new Date().getFullYear() at the present time.
CurrentYear == YearAtLoad + (DateOnly(now) \div DaysPerYear)

\* ------------------------------------------------------------- validation
\* allowNull: false and notEmpty: true
NotEmptyText(s) == s # Null /\ s # ""

\* isInt, min: 0, max: yearMax (request years are integers), where yearMax is
\* the value new Date().getFullYear() had when the Book model was defined; a
\* year that is not given is not validated.
ValidYear(y) == y = NoYear \/ (0 <= y /\ y <= yearMax)

\* new Sequelize({dialect: 'sqlite', storage, logging}): the typeValidation
\* option, under which the built-in validators of the data types run, is not
\* given and is off.
TypeValidation == FALSE

\* DataTypes.ENUM: membership is a validator of the data type, and the sqlite
\* column is plain text, so without typeValidation any text is stored; a
\* status that is not given takes the default.
ValidBookStatus(s) == s = Null \/ s \in BookStatus \/ ~TypeValidation

ValidBook(body) ==
    /\ NotEmptyText(body.title)
    /\ NotEmptyText(body.author)
    /\ ValidYear(body.year)
    /\ ValidBookStatus(body.status)

\* The e-mail addresses requests carry; "ivanov" has no @domain part.
Emails == {"ivanov@example.com", "petrov@example.com", "ivanov"}

IsEmail(e) == e \in {"ivanov@example.com", "petrov@example.com"}

\* A phone number is the sequence of its characters; NoPhone is a body
\* without a phone.
NoPhone == <<Null>>

\* [\d\s\-\(\)]
PhoneChars == {"0", "1", "2", "3", "4", "5", "6", "7", "8", "9", " ", "-", "(", ")"}

\* The digits and marks of a phone after its optional leading +.
PhoneRest(s) == IF Len(s) > 0 /\ s[1] = "+" THEN Tail(s) ELSE s

\* is: /^\+?[\d\s\-\(\)]{7,}$/i
PhoneMatches(s) ==
    /\ Len(PhoneRest(s)) >= 7
    /\ \A k \in 1..Len(PhoneRest(s)) : PhoneRest(s)[k] \in PhoneChars

\* A phone that is not given is not validated.
ValidPhone(s) == s = NoPhone \/ PhoneMatches(s)

ValidReader(body) ==
    /\ NotEmptyText(body.name)
    /\ body.email # Null
    /\ IsEmail(body.email)
    /\ ValidPhone(body.phone)

\* unique: true on Reader.email
EmailTaken(e) == \E i \in 1..Len(readers) : readers[i].email = e

\* ------------------------------------------------------------ the requests
ValidBookBodies ==
    [title : {"War and Peace"}, author : {"Tolstoy"}, year : {YearAtLoad},
     status : {Null, "available", "issued", "repair"}]
    \cup {[title |-> "War and Peace", author |-> "Tolstoy", year |-> NoYear,
            status |-> Null]}

\* Bodies that break a validation rule of the requirements.
InvalidBookBodies ==
    {[title |-> "", author |-> "Tolstoy", year |-> 0, status |-> Null],
     [title |-> "War and Peace", author |-> Null, year |-> 0, status |-> Null],
     [title |-> "War and Peace", author |-> "Tolstoy", year |-> -1, status |-> Null],
     [title |-> "War and Peace", author |-> "Tolstoy", year |-> YearAtLoad + 1,
      status |-> Null],
     [title |-> "War and Peace", author |-> "Tolstoy", year |-> 0, status |-> "lost"]}

BookBodies == ValidBookBodies \cup InvalidBookBodies

\* "+7 (912) 34-56"
GoodPhone == <<"+", "7", " ", "(", "9", "1", "2", ")", " ", "3", "4", "-", "5", "6">>

\* Phones the pattern does not match: too short, a letter, a + not in front.
BadPhones ==
    {<<"1", "2", "3", "4", "5", "6">>,
     <<"1", "2", "3", "4", "5", "6", "a">>,
     <<"7", "+", "1", "2", "3", "4", "5", "6">>}

ValidReaderBodies ==
    [name : {"Ivanov"}, email : {"ivanov@example.com", "petrov@example.com"},
     phone : {NoPhone, GoodPhone}]

InvalidReaderBodies ==
    {[name |-> "", email |-> "ivanov@example.com", phone |-> NoPhone],
     [name |-> "Ivanov", email |-> "ivanov", phone |-> NoPhone],
     [name |-> "Ivanov", email |-> Null, phone |-> NoPhone]}
    \cup [name : {"Ivanov"}, email : {"petrov@example.com"}, phone : BadPhones]

ReaderBodies == ValidReaderBodies \cup InvalidReaderBodies

BookIdInputs == 1..(MaxBooks + 1)

\* A reader id names a reader once that reader has been created.
ReaderIdInputs == 1..MaxReaders

\* error.message of a failed create, as the 400 response carries it: a failed
\* validator, or the unique index.
NoError == ""

\* A slot with no request, and the fields every slot has.
IdleReq ==
    [op |-> "none", pc |-> "idle", bookId |-> NoId, readerId |-> NoId,
     issue |-> NoId, code |-> 0, error |-> NoError, seen |-> Null]

Idle(p) == req[p].pc = "idle"

\* A handler whose awaits are over and whose next step sends its response:
\* the HTTP status, and the ids the request and the body carry.
Answer(op, bookId, readerId, issue, code) ==
    [op |-> op, pc |-> "respond", bookId |-> bookId, readerId |-> readerId,
     issue |-> issue, code |-> code, error |-> NoError, seen |-> Null]

\* A create that failed: the catch answers 400 with the error's message.
Failed(op, message) == [Answer(op, NoId, NoId, NoId, 400) EXCEPT !.error = message]

\* ------------------------------------------------------------- the store
BookIds == 1..Len(books)

ReaderIds == 1..Len(readers)

IssueIds == 1..Len(issues)

\* The issues of a book with status 'issued'.
OpenIssues(b) == {i \in IssueIds : issues[i].BookId = b /\ issues[i].status = "issued"}

\* FindOpenIssue without its status: 'issued' condition.
FindOpenIssue_AnyStatus(b) ==
    IF {i \in IssueIds : issues[i].BookId = b} = {} THEN NoId
    ELSE CHOOSE i \in IssueIds :
             issues[i].BookId = b /\ \A j \in IssueIds : issues[j].BookId = b => i <= j

\* BookIssue.findOne({where: {BookId, status: 'issued'}}): the first such row, or none.
FindOpenIssue(b) ==
    IF OpenIssues(b) = {} THEN NoId
    ELSE CHOOSE i \in OpenIssues(b) : \A j \in OpenIssues(b) : i <= j

\* Issue requests that passed the availability check and have not created their row.
PendingCreates == {p \in Procs : req[p].op = "issue" /\ req[p].pc = "create"}

Init ==
    /\ books = <<>>
    /\ readers = <<>>
    /\ issues = <<>>
    /\ req = [p \in Procs |-> IdleReq]
    /\ now = 0
    /\ yearMax = YearAtLoad

\* The clock moves on.
Tick ==
    /\ now < MaxNow
    /\ now' = now + 1
    /\ UNCHANGED <<books, readers, issues, req, yearMax>>

\* GET /books: Book.findAll.
ListBooks(p) ==
    /\ Idle(p)
    /\ req' = [req EXCEPT ![p] = Answer("listBooks", NoId, NoId, NoId, 200)]
    /\ UNCHANGED <<books, readers, issues, now, yearMax>>

\* POST /books: Book.create validates the body and inserts the row.
CreateBook(p, body) ==
    /\ Idle(p)
    /\ Len(books) < MaxBooks \/ ~ValidBook(body)
    /\ IF ValidBook(body)
       THEN /\ books' = Append(books,
                   [status |-> IF body.status = Null THEN BookStatusDefault
                               ELSE body.status])
            /\ req' = [req EXCEPT ![p] =
                   Answer("createBook", Len(books) + 1, NoId, NoId, 201)]
       ELSE /\ books' = books
            /\ req' = [req EXCEPT ![p] = Failed("createBook", "validation")]
    /\ UNCHANGED <<readers, issues, now, yearMax>>

\* CreateReader on a table without the unique index on email.
CreateReader_NoUnique(p, body) ==
    /\ Idle(p)
    /\ Len(readers) < MaxReaders \/ ~ValidReader(body) \/ EmailTaken(body.email)
    /\ IF ValidReader(body)
       THEN /\ readers' = Append(readers, [email |-> body.email])
            /\ req' = [req EXCEPT ![p] =
                   Answer("createReader", NoId, Len(readers) + 1, NoId, 201)]
       ELSE /\ readers' = readers
            /\ req' = [req EXCEPT ![p] = Failed("createReader", "validation")]
    /\ UNCHANGED <<books, issues, now, yearMax>>

\* POST /readers: Reader.create validates the body and inserts the row; the
\* insert fails on the unique index when the email is already there.
CreateReader(p, body) ==
    /\ Idle(p)
    /\ Len(readers) < MaxReaders \/ ~ValidReader(body) \/ EmailTaken(body.email)
    /\ IF ValidReader(body) /\ ~EmailTaken(body.email)
       THEN /\ readers' = Append(readers, [email |-> body.email])
            /\ req' = [req EXCEPT ![p] =
                   Answer("createReader", NoId, Len(readers) + 1, NoId, 201)]
       ELSE /\ readers' = readers
            /\ req' = [req EXCEPT ![p] =
                   Failed("createReader",
                          IF ValidReader(body) THEN "unique" ELSE "validation")]
    /\ UNCHANGED <<books, issues, now, yearMax>>

\* IssueFindBook that checks only that the book exists.
IssueFindBook_NoStatusCheck(p, bookId, readerId) ==
    /\ Idle(p)
    /\ Len(issues) + Cardinality(PendingCreates) < MaxIssues
    /\ IF bookId \notin BookIds
       THEN req' = [req EXCEPT ![p] = Answer("issue", bookId, readerId, NoId, 400)]
       ELSE req' = [req EXCEPT ![p] =
                [op |-> "issue", pc |-> "create", bookId |-> bookId,
                 readerId |-> readerId, issue |-> NoId, code |-> 0, error |-> NoError, seen |-> Null]]
    /\ UNCHANGED <<books, readers, issues, now, yearMax>>

\* POST /issue: Book.findByPk and the availability check.
IssueFindBook(p, bookId, readerId) ==
    /\ Idle(p)
    /\ Len(issues) + Cardinality(PendingCreates) < MaxIssues
    /\ IF bookId \notin BookIds \/ books[bookId].status # "available"
       THEN req' = [req EXCEPT ![p] = Answer("issue", bookId, readerId, NoId, 400)]
       ELSE req' = [req EXCEPT ![p] =
                [op |-> "issue", pc |-> "create", bookId |-> bookId,
                 readerId |-> readerId, issue |-> NoId, code |-> 0, error |-> NoError, seen |-> Null]]
    /\ UNCHANGED <<books, readers, issues, now, yearMax>>

\* POST /issue: BookIssue.create.
IssueCreate(p) ==
    /\ req[p].op = "issue" /\ req[p].pc = "create"
    /\ issues' = Append(issues,
           [BookId |-> req[p].bookId, ReaderId |-> req[p].readerId,
            status |-> IssueStatusDefault, issueDate |-> DateOnly(now),
            returnDate |-> NoDate])
    /\ req' = [req EXCEPT ![p].pc = "update", ![p].issue = Len(issues) + 1]
    /\ UNCHANGED <<books, readers, now, yearMax>>

\* POST /issue: book.update, then the 201 response.
IssueUpdateBook(p) ==
    /\ req[p].op = "issue" /\ req[p].pc = "update"
    /\ books' = [books EXCEPT ![req[p].bookId].status = "issued"]
    /\ req' = [req EXCEPT ![p].pc = "respond", ![p].code = 201]
    /\ UNCHANGED <<readers, issues, now, yearMax>>

\* POST /return: BookIssue.findOne and the 404 when there is none.
ReturnFindIssue(p, bookId) ==
    /\ Idle(p)
    /\ IF FindOpenIssue(bookId) = NoId
       THEN req' = [req EXCEPT ![p] = Answer("return", bookId, NoId, NoId, 404)]
       ELSE req' = [req EXCEPT ![p] =
                [op |-> "return", pc |-> "updateIssue", bookId |-> bookId,
                 readerId |-> NoId, issue |-> FindOpenIssue(bookId), code |-> 0,
                 error |-> NoError, seen |-> Null]]
    /\ UNCHANGED <<books, readers, issues, now, yearMax>>

\* ReturnUpdateIssue that sets the status and forgets the returnDate.
ReturnUpdateIssue_NoDate(p) ==
    /\ req[p].op = "return" /\ req[p].pc = "updateIssue"
    /\ issues' = [issues EXCEPT ![req[p].issue].status = "returned"]
    /\ req' = [req EXCEPT ![p].pc = "findBook"]
    /\ UNCHANGED <<books, readers, now, yearMax>>

\* ReturnUpdateIssue that sets the returnDate and leaves the status.
ReturnUpdateIssue_DateOnly(p) ==
    /\ req[p].op = "return" /\ req[p].pc = "updateIssue"
    /\ issues' = [issues EXCEPT ![req[p].issue].returnDate = DateOnly(now)]
    /\ req' = [req EXCEPT ![p].pc = "findBook"]
    /\ UNCHANGED <<books, readers, now, yearMax>>

\* POST /return: issue.update, one UPDATE statement for both columns.
ReturnUpdateIssue(p) ==
    /\ req[p].op = "return" /\ req[p].pc = "updateIssue"
    /\ issues' = [issues EXCEPT ![req[p].issue].returnDate = DateOnly(now),
                                ![req[p].issue].status = "returned"]
    /\ req' = [req EXCEPT ![p].pc = "findBook"]
    /\ UNCHANGED <<books, readers, now, yearMax>>

\* POST /return: Book.findByPk; the handler holds the row as it read it.
ReturnFindBook(p) ==
    /\ req[p].op = "return" /\ req[p].pc = "findBook"
    /\ req' = [req EXCEPT ![p].pc = "updateBook",
                          ![p].seen = IF req[p].bookId \in BookIds
                                      THEN books[req[p].bookId].status ELSE Null]
    /\ UNCHANGED <<books, readers, issues, now, yearMax>>

\* book.update({status: 'available'}) sends an UPDATE when the value differs
\* from the one the handler holds.
WritesAvailable(p) == req[p].seen \notin {Null, "available"}

\* ReturnUpdateBook that sets every book available.
ReturnUpdateBook_AllBooks(p) ==
    /\ req[p].op = "return" /\ req[p].pc = "updateBook"
    /\ books' = [b \in BookIds |-> [books[b] EXCEPT !.status = "available"]]
    /\ req' = [req EXCEPT ![p].pc = "respond", ![p].code = 200, ![p].seen = Null]
    /\ UNCHANGED <<readers, issues, now, yearMax>>

\* POST /return: book.update, then the 200 response (a book that was not
\* found has no update method: the catch answers 400).
ReturnUpdateBook(p) ==
    /\ req[p].op = "return" /\ req[p].pc = "updateBook"
    /\ IF req[p].seen = Null
       THEN /\ books' = books
            /\ req' = [req EXCEPT ![p].pc = "respond", ![p].code = 400]
       ELSE /\ books' = IF WritesAvailable(p)
                        THEN [books EXCEPT ![req[p].bookId].status = "available"]
                        ELSE books
            /\ req' = [req EXCEPT ![p].pc = "respond", ![p].code = 200,
                                  ![p].seen = Null]
    /\ UNCHANGED <<readers, issues, now, yearMax>>

\* res.json: the response is sent and the handler is over.
Respond(p) ==
    /\ req[p].pc = "respond"
    /\ req' = [req EXCEPT ![p] = IdleReq]
    /\ UNCHANGED <<books, readers, issues, now, yearMax>>

\* The process stops and is started again: the requests in flight are gone,
\* the store file stays, and the Book model is defined anew.
Crash ==
    /\ (\E p \in Procs : ~Idle(p)) \/ yearMax # CurrentYear
    /\ req' = [p \in Procs |-> IdleReq]
    /\ yearMax' = CurrentYear
    /\ UNCHANGED <<books, readers, issues, now>>

\* A request is taken up at any time.
Start(p) ==
    \/ ListBooks(p)
    \/ \E body \in BookBodies : CreateBook(p, body)
    \/ \E body \in ReaderBodies : CreateReader(p, body)
    \/ \E b \in BookIdInputs, r \in ReaderIdInputs : IssueFindBook(p, b, r)
    \/ \E b \in BookIdInputs : ReturnFindIssue(p, b)

\* A request in flight goes on after its await.
Continue(p) ==
    \/ IssueCreate(p)
    \/ IssueUpdateBook(p)
    \/ ReturnUpdateIssue(p)
    \/ ReturnFindBook(p)
    \/ ReturnUpdateBook(p)
    \/ Respond(p)

Next ==
    \/ Tick
    \/ Crash
    \/ \E p \in Procs : Start(p)
    \/ \E p \in Procs : Continue(p)

Spec == Init /\ [][Next]_vars

\* Requests made one at a time: each is answered before the next is taken up.
AllIdle == \A p \in Procs : Idle(p)

NextSeq ==
    \/ Tick
    \/ \E p \in Procs : AllIdle /\ Start(p)
    \/ \E p \in Procs : Continue(p)

SpecSeq == Init /\ [][NextSeq]_vars

\* The process keeps running: concurrent requests and no stop.
NextRunning ==
    \/ Tick
    \/ \E p \in Procs : Start(p)
    \/ \E p \in Procs : Continue(p)

SpecRunning == Init /\ [][NextRunning]_vars

\* ------------------------------------------------------------- the claims
\* The outcomes of the interface, as the HTTP layer answers them.
NotFound(r) == r.pc = "respond" /\ r.code = 404

\* 400 'Книга недоступна для выдачи'
InvalidTransition(r) == r.pc = "respond" /\ r.op = "issue" /\ r.code = 400

Succeeded(r) == r.pc = "respond" /\ r.code \in {200, 201}

StoreUnchanged == books' = books /\ readers' = readers /\ issues' = issues

\* Slot p takes up an issueBook(b, r) call in this step.
IssueCalled(p, b, r) ==
    Idle(p) /\ req'[p].op = "issue" /\ req'[p].bookId = b /\ req'[p].readerId = r

\* Slot p takes up a returnBook(b) call in this step.
ReturnCalled(p, b) == Idle(p) /\ req'[p].op = "return" /\ req'[p].bookId = b

\* Slot p has made the first of its two writes and not the second.
BetweenWrites(p) ==
    \/ req[p].op = "issue" /\ req[p].pc = "update"
    \/ req[p].op = "return" /\ req[p].pc \in {"findBook", "updateBook"}

\* The issues of book b with status 'issued' after the step.
OpenAfter(b) ==
    {i \in 1..Len(issues') : issues'[i].BookId = b /\ issues'[i].status = "issued"}

\* A book's status and the existence of an open issue for it agree.
Agree(b) == (books[b].status = "issued") <=> (OpenIssues(b) # {})

\* C1: after any sequence of completed createBook, issueBook and returnBook
\* calls made one at a time, a book has status 'issued' if and only if exactly
\* one issue of that book has status 'issued'.
C1_IssuedIffOneOpenIssue ==
    AllIdle =>
        \A b \in BookIds :
            (books[b].status = "issued") <=> (Cardinality(OpenIssues(b)) = 1)

\* C2: of two issueBook calls on the same available book whose steps
\* interleave, one succeeds and the other fails with InvalidTransition: no book
\* ever has two issues with status 'issued', and no two calls answer 201 for
\* the same book together.
C2_OneIssueWins ==
    /\ \A b \in BookIds : Cardinality(OpenIssues(b)) <= 1
    /\ \A p, q \in Procs :
           (p # q /\ req[p].op = "issue" /\ req[q].op = "issue"
                  /\ req[p].bookId = req[q].bookId)
               => ~(Succeeded(req[p]) /\ Succeeded(req[q]))

\* C3: when the process stops between the two writes of an issueBook or
\* returnBook call, neither write remains: the book of the call is not 'issued'
\* without an open issue, has no open issue while 'available', and (for return)
\* its issue is not 'returned' while the book is still 'issued'.
C3_BothWritesOrNone ==
    [][\A p \in Procs :
          (BetweenWrites(p) /\ req'[p].pc = "idle") =>
              LET b == req[p].bookId
                  i == req[p].issue
              IN  /\ ~(books'[b].status = "issued" /\ OpenAfter(b) = {})
                  /\ ~(books'[b].status = "available" /\ OpenAfter(b) # {})
                  /\ req[p].op = "return" =>
                         ~(issues'[i].status = "returned" /\ books'[b].status = "issued")
      ]_vars

\* C4: a read made while an issueBook or returnBook call is between its two
\* writes (listBooks, or the lookup of another issueBook or returnBook) finds
\* the status of that call's book and the existence of an open issue for it in
\* agreement.
C4_NoIntermediateStateRead ==
    [][\A p \in Procs :
          (Idle(p) /\ req'[p].op \in {"listBooks", "issue", "return"}) =>
              \A q \in Procs \ {p} : BetweenWrites(q) => Agree(req[q].bookId)
      ]_vars

\* C5: with returnBook and issueBook calls on the same book interleaving, a
\* book is never set to 'available' while an issue of it has status 'issued',
\* and two returnBook calls never both succeed on the same open issue (the
\* second fails with NotFound).
C5_ReturnIsExclusive ==
    [][/\ \A p \in Procs :
              (req[p].op = "return" /\ req[p].pc = "updateBook"
                   /\ books'[req[p].bookId].status = "available")
                  => OpenAfter(req[p].bookId) = {}
       /\ \A p, q \in Procs :
              (p # q /\ req'[p].op = "return" /\ req'[q].op = "return"
                     /\ req'[p].issue = req'[q].issue)
                  => ~(Succeeded(req'[p]) /\ Succeeded(req'[q]))
      ]_vars

\* C6: issueBook on an existing book whose status is not 'available' fails with
\* InvalidTransition, creates no issue and leaves the store as it is, in the
\* lookup step and in the rest of the call.
C6_UnavailableBookRefused ==
    [][\A p \in Procs :
          /\ \A b \in BookIds, r \in ReaderIdInputs :
                 (IssueCalled(p, b, r) /\ books[b].status # "available")
                     => InvalidTransition(req'[p]) /\ StoreUnchanged
          /\ (InvalidTransition(req[p]) /\ req'[p] # req[p])
                 => Idle(p)' /\ StoreUnchanged
      ]_vars

\* A refused issueBook on an existing book in repair or already issued.
C6_Witness ==
    \E p \in Procs :
        /\ InvalidTransition(req[p])
        /\ req[p].bookId \in BookIds
        /\ books[req[p].bookId].status = "issued"
        /\ OpenIssues(req[p].bookId) # {}

\* C7: issueBook with a book id that matches no book fails with NotFound, an
\* outcome other than InvalidTransition, and changes nothing in the store.
C7_MissingBookNotFound ==
    [][\A p \in Procs, b \in BookIdInputs, r \in ReaderIdInputs :
          (IssueCalled(p, b, r) /\ b \notin BookIds)
              => /\ NotFound(req'[p])
                 /\ ~InvalidTransition(req'[p])
                 /\ StoreUnchanged
      ]_vars

\* C8: issueBook with an available book and a reader id that matches no reader
\* fails with NotFound, creates no issue and leaves the book 'available'; no
\* issue is created with a reader id that matches no reader.
C8_MissingReaderNotFound ==
    [][/\ \A p \in Procs, b \in BookIds, r \in ReaderIdInputs :
              (IssueCalled(p, b, r) /\ books[b].status = "available"
                   /\ r \notin ReaderIds)
                  => NotFound(req'[p]) /\ StoreUnchanged
       /\ Len(issues') > Len(issues)
              => issues'[Len(issues')].ReaderId \in ReaderIds
      ]_vars

ValidationError(r) == r.pc = "respond" /\ r.code = 400 /\ r.error # NoError

\* The step takes up a request for the operation in slot p.
Called(p, op) == Idle(p) /\ req'[p].op = op

\* The title, the author and the status of a createBook body are acceptable.
RestOfBookValid(body) ==
    /\ NotEmptyText(body.title)
    /\ NotEmptyText(body.author)
    /\ body.status \in BookStatus \cup {Null}

\* C11: createBook accepts a given year exactly when it is an integer with
\* 0 <= year <= the calendar year at the time of the call, the other fields
\* being valid; so after the year has advanced the new year is accepted.
C11_YearUpToCurrentYear ==
    [][\A p \in Procs : Called(p, "createBook") =>
          \A body \in BookBodies :
             RestOfBookValid(body) /\ body.year # NoYear /\ CreateBook(p, body)
                => (Succeeded(req'[p]) <=> (0 <= body.year /\ body.year <= CurrentYear))]_vars

\* No two readers have the same email.
UniqueEmails == \A i, j \in ReaderIds : readers[i].email = readers[j].email => i = j

\* C12: no two readers ever share an email, whatever the interleaving of
\* createReader calls; a createReader whose email is already a reader's fails
\* with a ValidationError and adds no reader.
C12_EmailIsUnique ==
    [][/\ UniqueEmails'
       /\ \A p \in Procs : Called(p, "createReader") =>
             \A body \in ReaderBodies :
                EmailTaken(body.email) /\ CreateReader(p, body)
                   => ValidationError(req'[p]) /\ readers' = readers]_vars

\* A createReader is refused for its email being taken while another one has
\* just added the reader.
C12_Witness ==
    \E p, q \in Procs :
       /\ req[p].op = "createReader" /\ Succeeded(req[p])
       /\ req[q].op = "createReader" /\ ValidationError(req[q])
       /\ req[q].error = "unique"
       /\ Len(readers) = 1

\* The validation rules of the fields, as the requirements give them.
MalformedEmails == {"ivanov"}

MalformedPhones == BadPhones

BookRuleBroken(body) ==
    \/ body.title \in {Null, ""}
    \/ body.author \in {Null, ""}
    \/ body.year # NoYear /\ (body.year < 0 \/ body.year > CurrentYear)
    \/ body.status \notin BookStatus \cup {Null}

ReaderRuleBroken(body) ==
    \/ body.name \in {Null, ""}
    \/ body.email \in MalformedEmails
    \/ body.phone \in MalformedPhones

\* C13: a createBook or createReader with a field that breaks its rule (an
\* empty title, author or name, a year out of bounds, a status outside the
\* enum, a malformed email or phone) fails with a ValidationError and leaves
\* the books and the readers as they were; a createBook without a status that
\* succeeds stores the book as 'available'.
C13_InvalidFieldRefused ==
    [][\A p \in Procs :
          /\ Called(p, "createBook") =>
                \A body \in BookBodies :
                   /\ BookRuleBroken(body) /\ CreateBook(p, body)
                         => /\ ValidationError(req'[p])
                            /\ books' = books /\ readers' = readers
                   /\ body.status = Null /\ Succeeded(req'[p]) /\ CreateBook(p, body)
                         => /\ Len(books') = Len(books) + 1
                            /\ books'[Len(books')].status = "available"
          /\ Called(p, "createReader") =>
                \A body \in ReaderBodies :
                   ReaderRuleBroken(body) /\ CreateReader(p, body)
                      => /\ ValidationError(req'[p])
                         /\ books' = books /\ readers' = readers]_vars

\* The step is a step of a call of the operation that is in flight in slot p.
StepOf(p, op) == req[p].op = op /\ req'[p] # req[p]

\* The books other than b, and the issues there were, are as they were.
OtherBooksKept(b) ==
    /\ Len(books') = Len(books)
    /\ \A c \in BookIds : c # b => books'[c] = books[c]

IssuesKeptBut(changed) ==
    /\ Len(issues') = Len(issues)
    /\ \A i \in IssueIds : i \notin changed => issues'[i] = issues[i]

C15_StatusTransitions ==
    [][/\ Len(books') >= Len(books)
       /\ \A b \in BookIds : books'[b].status # books[b].status =>
             \/ /\ books[b].status = "available" /\ books'[b].status = "issued"
                /\ \E p \in Procs : StepOf(p, "issue") /\ req[p].bookId = b
             \/ /\ books[b].status = "issued" /\ books'[b].status = "available"
                /\ \E p \in Procs : StepOf(p, "return") /\ req[p].bookId = b
       /\ \A p \in Procs :
             ReturnUpdateBook(p) /\ WritesAvailable(p)
                => books[req[p].bookId].status = "issued"]_vars

\* C16: issues are created only by issueBook and changed only by returnBook;
\* the set of issues never shrinks, an issue with status 'returned' is never
\* modified again by a later or concurrent returnBook, and no issue ever has
\* status 'overdue'.
C16_IssuesAreARecord ==
    [][/\ Len(issues') >= Len(issues)
       /\ Len(issues') > Len(issues) => \E p \in Procs : StepOf(p, "issue")
       /\ \A i \in IssueIds : issues'[i] # issues[i] =>
             /\ \E p \in Procs : StepOf(p, "return")
             /\ issues[i].status # "returned"
       /\ \A i \in 1..Len(issues') : issues'[i].status # "overdue"]_vars

\* C17: an issue has a returnDate exactly when its status is 'returned', and
\* every issue with status 'issued' has an issueDate and no returnDate.
C17_ReturnDateIffReturned ==
    \A i \in IssueIds :
       /\ issues[i].returnDate # NoDate <=> issues[i].status = "returned"
       /\ issues[i].status = "issued" =>
             issues[i].issueDate # NoDate /\ issues[i].returnDate = NoDate

\* One issue has been returned and another is open.
C17_Witness ==
    \E i, j \in IssueIds :
       /\ issues[i].status = "returned" /\ issues[i].returnDate # NoDate
       /\ issues[j].status = "issued"
====
